---- MODULE Spec2Model ----
(***************************************************************************)
(* Model of the pacing layer of rustednes-cosmic: src/emulator.rs          *)
(* (struct Emulator: tick, pause_emulation, resume_emulation, reset,       *)
(* load_rom, key events) and src/video.rs (VideoFrameSink::write_frame).   *)
(*                                                                         *)
(* The clock is the audio driver's time source; it is monotonic and is     *)
(* read once by every operation that needs it.  The model samples it on a  *)
(* grid of ClockQuantum nanoseconds.  The machine core (rustednes_core's   *)
(* Nes) is an external collaborator: a step costs between 1 and            *)
(* MaxStepCost cycles and may deliver one complete frame to the video      *)
(* sink; both are chosen nondeterministically.                             *)
(***************************************************************************)
EXTENDS Integers, Sequences, FiniteSets, TLC

VARIABLES
    now,                    \* time_source.time_ns(), the clock reading
    start_time_ns,          \* Emulator.start_time_ns (the epoch)
    paused_time_ns,         \* Emulator.paused_time_ns : Option<u64>
    emulated_cycles,        \* Emulator.emulated_cycles
    emulated_instructions,  \* Emulator.emulated_instructions
    nes,                    \* Emulator.nes, the machine core
    pixels,                 \* Emulator.pixels
    rom_path,               \* Emulator.rom_path
    pc,                     \* position inside tick: "idle", "loop", "panic", "wrapped"
    target_time_ns,         \* local of tick (line 68)
    target_cycles,          \* local of tick (line 69)
    op,                     \* history: the latest operation called ("clock" once the clock moved on)
    arg,                    \* history: <<new path, rom of the old core>> of the latest load_rom,
                            \*          <<"running">> for a resume called in the Running state
    entry_cycles,           \* history: emulated_cycles when the latest tick was called
    steps,                  \* history: calls of nes.step made by the latest tick
    running_ns,             \* history: clock time spent Running since the latest epoch reset
    pr,                     \* history: the pause/resume/advance scenario in progress
    last_frame,             \* history: the latest frame the core handed to the video sink
    emulator_some,          \* AppModel.emulator is Some
    opening_file,           \* AppModel.opening_file
    dialogs,                \* file dialog tasks in flight
    dlg,                    \* history: the file dialog scenario in progress
    sample_buffer,          \* the bounded sample buffer of the audio driver
    audio_out,              \* history: outcome of the latest push or pop on sample_buffer
    vprev                   \* history: the pixel buffer before the latest write_frame

emu  == <<start_time_ns, paused_time_ns, emulated_cycles, emulated_instructions,
          nes, pixels, rom_path>>
loc  == <<pc, target_time_ns, target_cycles>>
hist == <<op, arg, entry_cycles, steps, running_ns, pr>>
app  == <<emulator_some, opening_file, dialogs, dlg>>
aud  == <<sample_buffer, audio_out>>
vars == <<now, emu, loc, hist, last_frame, app, aud, vprev>>

(***************************************************************************)
(* Bounds of the model.                                                    *)
(***************************************************************************)
ClockQuantum    == 400      \* grid on which the clock is sampled, in ns
MaxTime         == 2800     \* the clock stops here
MaxStepCost     == 2        \* largest cycle cost one core step reports
SCREEN_WIDTH    == 2        \* ppu::SCREEN_WIDTH, scaled down
SCREEN_HEIGHT   == 1        \* ppu::SCREEN_HEIGHT, scaled down
MaxPaletteIndex == 1        \* palette indices a frame may hold: 0..MaxPaletteIndex
MaxRom          == 2        \* rom files 1..MaxRom
AppMaxTime      == 1200     \* the clock stops here when the application runs
BufferCapacity  == 3        \* capacity C of the sample buffer
MaxSample       == 3        \* audio samples are 1..MaxSample; 0 is silence

(***************************************************************************)
(* Program constants.                                                      *)
(***************************************************************************)
CPU_CYCLE_TIME_NS == 559    \* (1e9 / 1789773) as u64 + 1
ALPHA == 119                \* 0x77

\* Stand-in for rustednes_core::sink::XRGB8888_PALETTE, a table of 0xRRGGBB
\* values that lives outside this repository; index i is entry i + 1.
XRGB8888_PALETTE == <<6710886, 10888, 1315495, 3866788>>

None    == <<>>
Some(t) == <<t>>

Paths     == 1..MaxRom
\* The cartridge load_rom(path) parses out of the file at path.
Cartridge(path) == path

FrameLen  == SCREEN_WIDTH * SCREEN_HEIGHT

\* Nes::new(rom): the power-on machine for a cartridge.  age counts the
\* instructions executed since power-on, pad is button A of game_pad_1.
NesNew(rom) == [rom |-> rom, age |-> 0, pad |-> FALSE]

\* nes.reset(): back to the power-on condition of the same cartridge.
NesReset(n) == NesNew(n.rom)

\* One nes.step: the core executes one instruction.
NesStep(n) == [n EXCEPT !.age = @ + 1]

\* The frame the core hands to the video sink when a step completes one.
FrameOf(n) == [i \in 1..FrameLen |-> (n.age + n.rom + i) % (MaxPaletteIndex + 1)]

\* AppModel::keymap, cut down to one mapped key; "KeyQ" is not mapped.
KeyCodes == {"KeyX", "KeyQ"}
keymap   == [c \in {"KeyX"} |-> "A"]

Byte(x) == x % 256

\* write_frame without line 28: the fourth byte of a pixel is left alone.
write_frame_skips_alpha(px, frame_buffer) ==
    [k \in 1..Len(px) |->
        LET i      == (k - 1) \div 4
            b      == (k - 1) % 4
        IN  IF i + 1 > Len(frame_buffer) THEN px[k]
            ELSE LET pixel == XRGB8888_PALETTE[frame_buffer[i + 1] + 1]
                 IN  CASE b = 0 -> Byte(pixel \div 65536)
                       [] b = 1 -> Byte(pixel \div 256)
                       [] b = 2 -> Byte(pixel)
                       [] OTHER -> px[k]]

\* VideoFrameSink::write_frame
write_frame(px, frame_buffer) ==
    [k \in 1..Len(px) |->
        LET i      == (k - 1) \div 4
            b      == (k - 1) % 4
        IN  IF i + 1 > Len(frame_buffer) THEN px[k]
            ELSE LET pixel == XRGB8888_PALETTE[frame_buffer[i + 1] + 1]
                 IN  CASE b = 0 -> Byte(pixel \div 65536)
                       [] b = 1 -> Byte(pixel \div 256)
                       [] b = 2 -> Byte(pixel)
                       [] OTHER -> ALPHA]

ZeroPixels == [k \in 1..(FrameLen * 4) |-> 0]

(***************************************************************************)
(* History variables: they record what was called, never feed the program. *)
(* pr follows one scenario: pause() from Running at tp (epoch start_old),  *)
(* further pause() calls (repause), resume() at tr, advance() at ta.       *)
(***************************************************************************)
NoPR == [stage |-> "none", start_old |-> 0, tp |-> 0, repause |-> FALSE,
         tr |-> 0, ta |-> 0]

\* No frame was delivered yet.
NoFrame == <<>>

\* dlg follows one file dialog: whether the emulator was Paused when it
\* opened (was_paused), the clock time since the epoch at that moment (base),
\* the emulated time the session stood at (frozen: up to the pause if it was
\* Paused), the clock time spent Running since the dialog opened (run),
\* whether a toggle or reset command came in while it was open (touched),
\* whether a further OpenFileDialog arrived while it is open (ignored), and
\* the calls of pause_emulation and resume_emulation its two handlers made
\* (pauses, resumes).
NoDlg == [stage |-> "none", was_paused |-> FALSE, base |-> 0, frozen |-> 0,
          run |-> 0, touched |-> FALSE, ignored |-> FALSE, pauses |-> 0,
          resumes |-> 0]

NoAudio == [call |-> "none", sample |-> 0, dropped |-> FALSE]

Init ==
    /\ now \in {0, ClockQuantum}
    /\ start_time_ns = now                       \* Emulator::new, line 44
    /\ paused_time_ns = None
    /\ emulated_cycles = 0
    /\ emulated_instructions = 0
    /\ \E p \in Paths : nes = NesNew(Cartridge(p)) /\ rom_path = p
    /\ pixels = ZeroPixels
    /\ pc = "idle"
    /\ target_time_ns = 0
    /\ target_cycles = 0
    /\ op = "new"
    /\ arg = <<>>
    /\ entry_cycles = 0
    /\ steps = 0
    /\ running_ns = 0
    /\ pr = NoPR
    /\ last_frame = NoFrame
    /\ emulator_some = TRUE
    /\ opening_file = FALSE
    /\ dialogs = 0
    /\ dlg = NoDlg
    /\ sample_buffer = <<>>
    /\ audio_out = NoAudio
    /\ vprev = ZeroPixels

\* The clock moves on between two operations.
ClockAdvance ==
    /\ pc = "idle"
    /\ UNCHANGED last_frame
    /\ now + ClockQuantum <= MaxTime
    /\ now' = now + ClockQuantum
    /\ running_ns' = IF paused_time_ns = None THEN running_ns + ClockQuantum
                     ELSE running_ns
    /\ op' = "clock"
    /\ arg' = <<>>
    /\ entry_cycles' = 0
    /\ steps' = 0
    /\ UNCHANGED <<emu, loc, pr>>

\* tick without the early return of lines 62-64.
tick_no_pause_check ==
    /\ pc = "idle"
    /\ UNCHANGED last_frame
    /\ op' = "tick"
    /\ arg' = <<>>
    /\ entry_cycles' = emulated_cycles
    /\ steps' = 0
    /\ IF now < start_time_ns
       THEN /\ pc' \in {"panic", "wrapped"}
            /\ UNCHANGED <<target_time_ns, target_cycles>>
       ELSE /\ target_time_ns' = now - start_time_ns
            /\ target_cycles' = (now - start_time_ns) \div CPU_CYCLE_TIME_NS
            /\ pc' = "loop"
    /\ pr' = IF pr.stage = "resumed"
             THEN [pr EXCEPT !.stage = "advanced", !.ta = now]
             ELSE NoPR
    /\ UNCHANGED <<now, emu, running_ns>>

\* Emulator::tick, from the call to the first test of the loop condition.
\* now - start_time_ns is a u64 subtraction: when it underflows a debug
\* build panics and a release build wraps to a target near 2^64 / 559.
tick ==
    /\ pc = "idle"
    /\ UNCHANGED last_frame
    /\ op' = "tick"
    /\ arg' = <<>>
    /\ entry_cycles' = emulated_cycles
    /\ steps' = 0
    /\ IF paused_time_ns # None
       THEN /\ pr' = NoPR
            /\ UNCHANGED <<emu, loc>>
       ELSE IF now < start_time_ns
       THEN /\ pc' \in {"panic", "wrapped"}
            /\ pr' = IF pr.stage = "resumed"
                     THEN [pr EXCEPT !.stage = "advanced", !.ta = now]
                     ELSE NoPR
            /\ UNCHANGED <<emu, target_time_ns, target_cycles>>
       ELSE /\ target_time_ns' = now - start_time_ns
            /\ target_cycles' = (now - start_time_ns) \div CPU_CYCLE_TIME_NS
            /\ pc' = "loop"
            /\ pr' = IF pr.stage = "resumed"
                     THEN [pr EXCEPT !.stage = "advanced", !.ta = now]
                     ELSE NoPR
            /\ UNCHANGED emu
    /\ UNCHANGED <<now, running_ns>>

\* The loop of tick with the condition emulated_cycles <= target_cycles.
tick_step_le ==
    /\ \/ pc = "loop" /\ emulated_cycles <= target_cycles
       \/ pc = "wrapped" /\ emulated_cycles * CPU_CYCLE_TIME_NS < MaxTime
    /\ \E cycles \in 1..MaxStepCost, frame_done \in BOOLEAN :
          /\ nes' = NesStep(nes)
          /\ pixels' = IF frame_done THEN write_frame(pixels, FrameOf(nes))
                       ELSE pixels
          /\ last_frame' = IF frame_done THEN FrameOf(nes) ELSE last_frame
          /\ emulated_cycles' = emulated_cycles + cycles
          /\ emulated_instructions' = emulated_instructions + 1
    /\ steps' = steps + 1
    /\ UNCHANGED <<now, start_time_ns, paused_time_ns, rom_path, loc,
                   op, arg, entry_cycles, running_ns, pr>>

\* The loop body without line 76: the cycle cost is never added.
tick_step_no_add ==
    /\ \/ pc = "loop" /\ emulated_cycles < target_cycles
       \/ pc = "wrapped" /\ emulated_cycles * CPU_CYCLE_TIME_NS < MaxTime
    /\ \E cycles \in 1..MaxStepCost, frame_done \in BOOLEAN :
          /\ nes' = NesStep(nes)
          /\ pixels' = IF frame_done THEN write_frame(pixels, FrameOf(nes))
                       ELSE pixels
          /\ last_frame' = IF frame_done THEN FrameOf(nes) ELSE last_frame
          /\ emulated_cycles' = emulated_cycles
          /\ emulated_instructions' = emulated_instructions + 1
    /\ steps' = steps + 1
    /\ UNCHANGED <<now, start_time_ns, paused_time_ns, rom_path, loc,
                   op, arg, entry_cycles, running_ns, pr>>

\* The loop body counting cycles into the instruction counter.
tick_step_counts_cycles ==
    /\ \/ pc = "loop" /\ emulated_cycles < target_cycles
       \/ pc = "wrapped" /\ emulated_cycles * CPU_CYCLE_TIME_NS < MaxTime
    /\ \E cycles \in 1..MaxStepCost, frame_done \in BOOLEAN :
          /\ nes' = NesStep(nes)
          /\ pixels' = IF frame_done THEN write_frame(pixels, FrameOf(nes))
                       ELSE pixels
          /\ last_frame' = IF frame_done THEN FrameOf(nes) ELSE last_frame
          /\ emulated_cycles' = emulated_cycles + cycles
          /\ emulated_instructions' = emulated_instructions + cycles
    /\ steps' = steps + 1
    /\ UNCHANGED <<now, start_time_ns, paused_time_ns, rom_path, loc,
                   op, arg, entry_cycles, running_ns, pr>>

\* One iteration of the while loop of tick: nes.step and the two counters.
\* After a wrapped subtraction the target is out of the model's reach and
\* the loop runs on as far as the model follows it.
tick_step ==
    /\ \/ pc = "loop" /\ emulated_cycles < target_cycles
       \/ pc = "wrapped" /\ emulated_cycles * CPU_CYCLE_TIME_NS < MaxTime
    /\ \E cycles \in 1..MaxStepCost, frame_done \in BOOLEAN :
          /\ nes' = NesStep(nes)
          /\ pixels' = IF frame_done THEN write_frame(pixels, FrameOf(nes))
                       ELSE pixels
          /\ last_frame' = IF frame_done THEN FrameOf(nes) ELSE last_frame
          /\ emulated_cycles' = emulated_cycles + cycles
          /\ emulated_instructions' = emulated_instructions + 1
    /\ steps' = steps + 1
    /\ UNCHANGED <<now, start_time_ns, paused_time_ns, rom_path, loc,
                   op, arg, entry_cycles, running_ns, pr>>

\* The loop of tick left one cycle early (emulated_cycles + 1 < target_cycles).
tick_return_early ==
    /\ pc = "loop"
    /\ UNCHANGED last_frame
    /\ ~(emulated_cycles + 1 < target_cycles)
    /\ pc' = "idle"
    /\ target_time_ns' = 0
    /\ target_cycles' = 0
    /\ pr' = NoPR
    /\ UNCHANGED <<now, emu, op, arg, entry_cycles, steps, running_ns>>

\* The loop condition of tick fails: tick returns and its locals are gone.
tick_return ==
    /\ pc = "loop"
    /\ UNCHANGED last_frame
    /\ ~(emulated_cycles < target_cycles)
    /\ pc' = "idle"
    /\ target_time_ns' = 0
    /\ target_cycles' = 0
    /\ pr' = NoPR
    /\ UNCHANGED <<now, emu, op, arg, entry_cycles, steps, running_ns>>

\* pause_emulation that also re-anchors the epoch.
pause_moves_epoch ==
    /\ pc = "idle"
    /\ UNCHANGED last_frame
    /\ paused_time_ns' = Some(now)
    /\ start_time_ns' = now
    /\ op' = "pause"
    /\ arg' = <<>>
    /\ pr' = IF paused_time_ns = None
             THEN [NoPR EXCEPT !.stage = "paused", !.start_old = start_time_ns,
                               !.tp = now]
             ELSE IF pr.stage = "paused" THEN [pr EXCEPT !.repause = TRUE]
             ELSE NoPR
    /\ entry_cycles' = 0
    /\ steps' = 0
    /\ UNCHANGED <<now, emulated_cycles, emulated_instructions,
                   nes, pixels, rom_path, loc, running_ns>>

\* Emulator::pause_emulation
pause_emulation ==
    /\ pc = "idle"
    /\ UNCHANGED last_frame
    /\ paused_time_ns' = Some(now)
    /\ op' = "pause"
    /\ arg' = <<>>
    /\ pr' = IF paused_time_ns = None
             THEN [NoPR EXCEPT !.stage = "paused", !.start_old = start_time_ns,
                               !.tp = now]
             ELSE IF pr.stage = "paused" THEN [pr EXCEPT !.repause = TRUE]
             ELSE NoPR
    /\ entry_cycles' = 0
    /\ steps' = 0
    /\ UNCHANGED <<now, start_time_ns, emulated_cycles, emulated_instructions,
                   nes, pixels, rom_path, loc, running_ns>>

\* resume_emulation that clears the pause and forgets to shift the epoch.
resume_no_shift ==
    /\ pc = "idle"
    /\ UNCHANGED last_frame
    /\ paused_time_ns' = None
    /\ op' = "resume"
    /\ arg' = <<>>
    /\ pr' = IF pr.stage = "paused"
             THEN [pr EXCEPT !.stage = "resumed", !.tr = now]
             ELSE NoPR
    /\ entry_cycles' = 0
    /\ steps' = 0
    /\ UNCHANGED <<now, start_time_ns, emulated_cycles, emulated_instructions,
                   nes, pixels, rom_path, loc, running_ns>>

\* resume_emulation that also restarts the cycle counter.
resume_zero_cycles ==
    /\ pc = "idle"
    /\ UNCHANGED last_frame
    /\ IF paused_time_ns # None
       THEN LET paused_duration_ns == now - paused_time_ns[1]
            IN  /\ start_time_ns' = start_time_ns + paused_duration_ns
                /\ paused_time_ns' = None
                /\ emulated_cycles' = 0
       ELSE UNCHANGED <<start_time_ns, paused_time_ns, emulated_cycles>>
    /\ op' = "resume"
    /\ arg' = <<>>
    /\ pr' = IF pr.stage = "paused"
             THEN [pr EXCEPT !.stage = "resumed", !.tr = now]
             ELSE NoPR
    /\ entry_cycles' = 0
    /\ steps' = 0
    /\ UNCHANGED <<now, emulated_instructions, nes, pixels,
                   rom_path, loc, running_ns>>

\* resume_emulation that re-anchors the epoch when nothing was paused.
resume_rebases_when_running ==
    /\ pc = "idle"
    /\ UNCHANGED last_frame
    /\ IF paused_time_ns # None
       THEN LET paused_duration_ns == now - paused_time_ns[1]
            IN  /\ start_time_ns' = start_time_ns + paused_duration_ns
                /\ paused_time_ns' = None
       ELSE start_time_ns' = now /\ UNCHANGED paused_time_ns
    /\ op' = "resume"
    /\ arg' = IF paused_time_ns = None THEN <<"running">> ELSE <<>>
    /\ pr' = IF pr.stage = "paused"
             THEN [pr EXCEPT !.stage = "resumed", !.tr = now]
             ELSE NoPR
    /\ entry_cycles' = 0
    /\ steps' = 0
    /\ UNCHANGED <<now, emulated_cycles, emulated_instructions, nes, pixels,
                   rom_path, loc, running_ns>>

\* Emulator::resume_emulation
resume_emulation ==
    /\ pc = "idle"
    /\ UNCHANGED last_frame
    /\ IF paused_time_ns # None
       THEN LET paused_duration_ns == now - paused_time_ns[1]
            IN  /\ start_time_ns' = start_time_ns + paused_duration_ns
                /\ paused_time_ns' = None
       ELSE UNCHANGED <<start_time_ns, paused_time_ns>>
    /\ op' = "resume"
    /\ arg' = IF paused_time_ns = None THEN <<"running">> ELSE <<>>
    /\ pr' = IF pr.stage = "paused"
             THEN [pr EXCEPT !.stage = "resumed", !.tr = now]
             ELSE NoPR
    /\ entry_cycles' = 0
    /\ steps' = 0
    /\ UNCHANGED <<now, emulated_cycles, emulated_instructions, nes, pixels,
                   rom_path, loc, running_ns>>

\* reset that leaves the instruction counter standing.
reset_keeps_instructions ==
    /\ pc = "idle"
    /\ UNCHANGED last_frame
    /\ nes' = NesReset(nes)
    /\ start_time_ns' = now
    /\ emulated_cycles' = 0
    /\ op' = "reset"
    /\ arg' = <<>>
    /\ running_ns' = 0
    /\ pr' = NoPR
    /\ entry_cycles' = 0
    /\ steps' = 0
    /\ UNCHANGED <<now, paused_time_ns, emulated_instructions, pixels,
                   rom_path, loc>>

\* Emulator::reset
reset ==
    /\ pc = "idle"
    /\ UNCHANGED last_frame
    /\ nes' = NesReset(nes)
    /\ start_time_ns' = now
    /\ emulated_cycles' = 0
    /\ emulated_instructions' = 0
    /\ op' = "reset"
    /\ arg' = <<>>
    /\ running_ns' = 0
    /\ pr' = NoPR
    /\ entry_cycles' = 0
    /\ steps' = 0
    /\ UNCHANGED <<now, paused_time_ns, pixels, rom_path, loc>>

\* load_rom that resets the old core and never installs the new one.
load_rom_keeps_core(rom, path) ==
    /\ pc = "idle"
    /\ UNCHANGED last_frame
    /\ nes' = NesReset(nes)
    /\ start_time_ns' = now
    /\ emulated_cycles' = 0
    /\ emulated_instructions' = 0
    /\ rom_path' = path
    /\ op' = "load"
    /\ arg' = <<path, nes.rom>>
    /\ running_ns' = 0
    /\ pr' = NoPR
    /\ entry_cycles' = 0
    /\ steps' = 0
    /\ UNCHANGED <<now, paused_time_ns, pixels, loc>>

\* load_rom that starts the new image on a blank pixel buffer.
load_rom_clears_pixels(rom, path) ==
    /\ pc = "idle"
    /\ UNCHANGED last_frame
    /\ nes' = NesNew(rom)
    /\ start_time_ns' = now
    /\ emulated_cycles' = 0
    /\ emulated_instructions' = 0
    /\ rom_path' = path
    /\ op' = "load"
    /\ arg' = <<path, nes.rom>>
    /\ running_ns' = 0
    /\ pr' = NoPR
    /\ entry_cycles' = 0
    /\ steps' = 0
    /\ pixels' = ZeroPixels
    /\ UNCHANGED <<now, paused_time_ns, loc>>

\* Emulator::load_rom(rom, rom_path): self.reset(), then the new core.
load_rom(rom, path) ==
    /\ pc = "idle"
    /\ UNCHANGED last_frame
    /\ nes' = NesNew(rom)
    /\ start_time_ns' = now
    /\ emulated_cycles' = 0
    /\ emulated_instructions' = 0
    /\ rom_path' = path
    /\ op' = "load"
    /\ arg' = <<path, nes.rom>>
    /\ running_ns' = 0
    /\ pr' = NoPR
    /\ entry_cycles' = 0
    /\ steps' = 0
    /\ UNCHANGED <<now, paused_time_ns, pixels, loc>>

\* AppModel::update, Message::OpenFileResult: the cartridge read from the
\* chosen path is loaded into the emulator.
LoadRom == \E p \in Paths : load_rom(Cartridge(p), p)

\* Emulator::set_button_pressed
set_button_pressed(key_code, pressed) ==
    /\ pc = "idle"
    /\ UNCHANGED last_frame
    /\ nes' = IF key_code \in DOMAIN keymap THEN [nes EXCEPT !.pad = pressed]
              ELSE nes
    /\ op' = "key"
    /\ arg' = <<>>
    /\ pr' = NoPR
    /\ entry_cycles' = 0
    /\ steps' = 0
    /\ UNCHANGED <<now, start_time_ns, paused_time_ns, emulated_cycles,
                   emulated_instructions, pixels, rom_path, loc, running_ns>>

\* Emulator::key_down
key_down == \E c \in KeyCodes : set_button_pressed(c, TRUE)

\* Emulator::key_up
key_up == \E c \in KeyCodes : set_button_pressed(c, FALSE)

\* What the operations of the emulator leave alone.
other == <<app, aud, vprev>>

Next ==
    \/ ClockAdvance /\ UNCHANGED other
    \/ tick /\ UNCHANGED other
    \/ tick_step /\ UNCHANGED other
    \/ tick_return /\ UNCHANGED other
    \/ pause_emulation /\ UNCHANGED other
    \/ resume_emulation /\ UNCHANGED other
    \/ reset /\ UNCHANGED other
    \/ LoadRom /\ UNCHANGED other
    \/ key_down /\ UNCHANGED other
    \/ key_up /\ UNCHANGED other

Spec == Init /\ [][Next]_vars

TypeOK ==
    /\ now \in 0..MaxTime
    /\ paused_time_ns = None \/ Len(paused_time_ns) = 1
    /\ Len(pixels) = FrameLen * 4

(***************************************************************************)
(* Derived notions used by the properties.                                 *)
(***************************************************************************)
Running == paused_time_ns = None
Paused  == paused_time_ns # None

\* target_cycles as line 68-69 compute it from the current clock reading.
Target == (now - start_time_ns) \div CPU_CYCLE_TIME_NS

\* tick has just returned in the Running state; the clock still reads what
\* tick read.
TickReturned == op = "tick" /\ pc = "idle" /\ Running

\* The elapsed time an advance() would use had the pause of the scenario pr
\* not occurred: the paused interval tr - tp cut out of the clock.
ElapsedNoPause == pr.ta - pr.start_old - (pr.tr - pr.tp)

(***************************************************************************)
(* C1: while the paused timestamp is set, a call of tick leaves            *)
(* emulated_cycles, emulated_instructions, start_time_ns, the paused       *)
(* timestamp, the pixel buffer and the machine core unchanged and calls    *)
(* nes.step zero times: it returns at once and no loop runs while paused.  *)
(***************************************************************************)
C1_PausedTickIsNoOp ==
    /\ [][(tick /\ Paused) =>
            /\ UNCHANGED <<emulated_cycles, emulated_instructions, start_time_ns,
                           paused_time_ns, pixels, nes>>
            /\ steps' = 0
            /\ pc' = "idle"]_vars
    /\ [](Paused => pc = "idle")

\* A paused tick at a clock reading where a running tick would have stepped.
C1_Witness ==
    /\ op = "tick"
    /\ Paused
    /\ steps = 0
    /\ now >= start_time_ns
    /\ emulated_cycles > 0
    /\ emulated_cycles < Target

(***************************************************************************)
(* C2: when tick returns in the Running state, emulated_cycles is at least *)
(* target_cycles = (now - start_time_ns) / cycle_period_ns for the clock   *)
(* reading tick used.                                                      *)
(***************************************************************************)
C2_NoCycleDebt == TickReturned => emulated_cycles >= Target

\* One advance() that caught up a debt of five cycles from zero.
C2_Witness ==
    /\ TickReturned
    /\ entry_cycles = 0
    /\ Target = 5
    /\ steps >= 3
    /\ emulated_cycles >= 5

(***************************************************************************)
(* C3: after every advance() emulated_cycles exceeds the target_cycles of  *)
(* that call by less than the cycle cost of one core step, and an advance  *)
(* that finds emulated_cycles >= target_cycles on entry executes no step.  *)
(***************************************************************************)
C3_BoundedOvershoot ==
    TickReturned =>
        /\ emulated_cycles < Target + MaxStepCost
        /\ (entry_cycles >= Target => steps = 0)

\* An advance() that found the largest possible overshoot and did not step.
C3_Witness ==
    /\ TickReturned
    /\ Target > 0
    /\ entry_cycles = Target + MaxStepCost - 1
    /\ emulated_cycles = entry_cycles
    /\ steps = 0

(***************************************************************************)
(* C4: emulated_cycles never decreases in a step of advance(), pause() or  *)
(* resume(); it is lowered only by reset() and load(), which set it to 0.  *)
(***************************************************************************)
C4_CyclesMonotone ==
    [][\/ emulated_cycles' >= emulated_cycles
       \/ (reset \/ LoadRom) /\ emulated_cycles' = 0]_vars

\* A resume() after cycles were executed, with the counter still standing.
C4_Witness ==
    /\ op = "resume"
    /\ pr.stage = "resumed"
    /\ emulated_cycles > 1

(***************************************************************************)
(* C5: pause() from Running at tp, then resume() at tr with nothing but    *)
(* the clock in between, moves start_time_ns forward by exactly tr - tp    *)
(* and is Running again; the advance() that follows at ta uses the elapsed *)
(* time ta - start_old - (tr - tp) and the target_cycles that go with it.  *)
(***************************************************************************)
C5_PauseResumeShiftsEpoch ==
    ~pr.repause =>
        /\ pr.stage = "resumed" =>
              /\ start_time_ns = pr.start_old + (pr.tr - pr.tp)
              /\ Running
        /\ pr.stage = "advanced" =>
              IF pc = "loop"
              THEN /\ target_time_ns = ElapsedNoPause
                   /\ target_cycles = ElapsedNoPause \div CPU_CYCLE_TIME_NS
              ELSE ElapsedNoPause < 0

\* The scenario of the spec on the model's clock grid: a pause that lasted,
\* then an advance() whose elapsed time leaves the paused interval out.
C5_Witness ==
    /\ pr.stage = "advanced"
    /\ ~pr.repause
    /\ pc = "loop"
    /\ pr.start_old = 0
    /\ pr.tp = ClockQuantum
    /\ pr.tr = pr.tp + 3 * ClockQuantum
    /\ pr.ta = pr.tr + ClockQuantum
    /\ target_time_ns = 2 * ClockQuantum

(***************************************************************************)
(* C6: pause() while already Paused is a no-op: the timestamp of the first *)
(* pause() is kept, so pause(); pause(); resume() moves the epoch by       *)
(* resume time - first pause time, as pause(); resume() does.              *)
(***************************************************************************)
C6_PauseIdempotent ==
    /\ pr.stage = "paused" => paused_time_ns = Some(pr.tp)
    /\ pr.stage = "resumed" => start_time_ns = pr.start_old + (pr.tr - pr.tp)

(***************************************************************************)
(* C7: with no reset/load in between, the elapsed time an advance() uses   *)
(* in the Running state is the clock time spent Running since the latest   *)
(* epoch reset; time spent Paused never counts.                            *)
(***************************************************************************)
C7_NoCatchUpForPausedTime == pc = "loop" => target_time_ns = running_ns

(***************************************************************************)
(* C8: reset(), called in any state, yields emulated_cycles = 0,           *)
(* emulated_instructions = 0, start_time_ns = the clock reading of the     *)
(* call, and the machine core in the power-on condition of its cartridge.  *)
(***************************************************************************)
C8_ResetZeroesPacing ==
    op = "reset" =>
        /\ emulated_cycles = 0
        /\ emulated_instructions = 0
        /\ start_time_ns = now
        /\ nes = NesNew(Cartridge(rom_path))

\* A reset() made while Paused, later than the pause, after frames were drawn.
C8_Witness ==
    /\ op = "reset"
    /\ Paused
    /\ now > paused_time_ns[1]
    /\ pixels # ZeroPixels

(***************************************************************************)
(* C9: after reset() the state is Running whatever it was before: a        *)
(* reset() while Paused clears the paused timestamp.                       *)
(***************************************************************************)
C9_ResetResumes == op = "reset" => Running

(***************************************************************************)
(* C10: load(new_image) ends where installing a fresh core built from      *)
(* new_image and then calling reset() ends: the core is the power-on       *)
(* instance of the new image, both counters are 0, start_time_ns is the    *)
(* clock reading of the call, and rom_path is the new path.                *)
(***************************************************************************)
C10_LoadIsSwapThenReset ==
    op = "load" =>
        /\ nes = NesReset(NesNew(Cartridge(arg[1])))
        /\ rom_path = arg[1]
        /\ emulated_cycles = 0
        /\ emulated_instructions = 0
        /\ start_time_ns = now

\* A load of an image other than the one the old core ran, after the epoch.
C10_Witness ==
    /\ op = "load"
    /\ Cartridge(arg[1]) # arg[2]
    /\ now > 0
    /\ pixels # ZeroPixels

(***************************************************************************)
(* C14: the epoch and the counters are reset only by reset() and load():   *)
(* advance(), pause() and key events never change start_time_ns; resume()  *)
(* changes it only by adding the paused duration; pause(), resume() and    *)
(* key events never change the counters; no counter goes back to zero in   *)
(* any operation but reset() and load().                                   *)
(***************************************************************************)
C14_EpochAndCountersFrame ==
    [][/\ (tick \/ tick_step \/ tick_return \/ pause_emulation \/ key_down \/ key_up)
            => start_time_ns' = start_time_ns
       /\ resume_emulation
            => \/ start_time_ns' = start_time_ns
               \/ Paused /\ start_time_ns' = start_time_ns + (now - paused_time_ns[1])
       /\ (pause_emulation \/ resume_emulation \/ key_down \/ key_up)
            => UNCHANGED <<emulated_cycles, emulated_instructions>>
       /\ (start_time_ns' # start_time_ns) => (reset \/ LoadRom \/ resume_emulation)
       /\ (emulated_cycles' = 0 /\ emulated_cycles # 0) => (reset \/ LoadRom)
       /\ (emulated_instructions' = 0 /\ emulated_instructions # 0)
            => (reset \/ LoadRom)]_vars

\* A pause() made after the epoch moved and cycles were executed.
C14_Witness ==
    /\ op = "pause"
    /\ start_time_ns > 0
    /\ now > start_time_ns
    /\ emulated_cycles > 0
    /\ emulated_instructions > 0

Max0(x) == IF x > 0 THEN x ELSE 0

(***************************************************************************)
(* C15: with every step costing at least one cycle, an advance() executes  *)
(* at most target_cycles - emulated_cycles-on-entry steps, in the loop and *)
(* when it has returned: each step shrinks the remaining debt, and the     *)
(* call can return as soon as none is left.  Nothing else bounds the       *)
(* number of steps, so one call catches up a whole debt.                   *)
(***************************************************************************)
C15_StepsBoundedByDebt ==
    /\ [](/\ pc = "loop" => steps <= Max0(target_cycles - entry_cycles)
          /\ TickReturned => steps <= Max0(Target - entry_cycles)
          /\ (pc = "loop" /\ emulated_cycles >= target_cycles)
                => ENABLED tick_return)
    /\ [][(tick_step /\ pc = "loop") =>
            /\ target_cycles' = target_cycles
            /\ target_cycles - emulated_cycles' < target_cycles - emulated_cycles
            /\ steps' = steps + 1]_vars

\* One advance() that executed the whole debt of five cycles in five steps.
C15_Witness ==
    /\ TickReturned
    /\ entry_cycles = 0
    /\ Target = 5
    /\ steps = 5

(***************************************************************************)
(* C16: emulated_instructions is the number of core steps since the latest *)
(* reset()/load()/construction (the age of the core): every step adds      *)
(* exactly one, whether the loop steps depends on the cycle counter and    *)
(* the target only, and the counter never exceeds emulated_cycles when     *)
(* each step costs at least one cycle.                                     *)
(***************************************************************************)
C16_InstructionsCountSteps ==
    /\ [](/\ emulated_instructions = nes.age
          /\ emulated_instructions <= emulated_cycles
          /\ pc = "loop" => (ENABLED tick_step <=> emulated_cycles < target_cycles))
    /\ [][tick_step => emulated_instructions' = emulated_instructions + 1]_vars

\* Steps of more than one cycle, executed after an epoch reset.
C16_Witness ==
    /\ TickReturned
    /\ start_time_ns > 0
    /\ emulated_instructions >= 2
    /\ emulated_instructions < emulated_cycles

\* The pixel bytes of a frame, as section 4.4 of the specification has them:
\* bits 16..23, 8..15 and 0..7 of the palette entry, then the alpha constant.
Expand(f) ==
    [k \in 1..(4 * Len(f)) |->
        LET entry == XRGB8888_PALETTE[f[((k - 1) \div 4) + 1] + 1]
        IN  CASE (k - 1) % 4 = 0 -> (entry \div 65536) % 256
              [] (k - 1) % 4 = 1 -> (entry \div 256) % 256
              [] (k - 1) % 4 = 2 -> entry % 256
              [] OTHER -> ALPHA]

(***************************************************************************)
(* C17: the pixel buffer always has W*H*4 bytes and holds either the       *)
(* all-zero initial buffer or the full expansion of the latest frame the   *)
(* core delivered; only a step of advance() changes it, never pause(),     *)
(* resume(), reset(), load() or a key event.                               *)
(***************************************************************************)
C17_PixelsHoldLastFrame ==
    /\ [](/\ Len(pixels) = SCREEN_WIDTH * SCREEN_HEIGHT * 4
          /\ pixels = IF last_frame = NoFrame THEN ZeroPixels
                      ELSE Expand(last_frame))
    /\ [][pixels' # pixels => tick_step]_vars

\* A load() after which the buffer still shows the old image's last frame.
C17_Witness ==
    /\ op = "load"
    /\ nes.age = 0
    /\ nes.rom # arg[2]
    /\ pixels # ZeroPixels

(***************************************************************************)
(* C18: the epoch is never in the future: start_time_ns <= the clock in    *)
(* every reachable state, so now - start_time_ns never underflows.         *)
(***************************************************************************)
C18_EpochNotInFuture == start_time_ns <= now

(***************************************************************************)
(* C19: resume() in the Running state is a no-op: the epoch, the counters, *)
(* the pause state, the machine core, the pixels and the rom path stay.    *)
(***************************************************************************)
C19_ResumeWhenRunningIsNoOp ==
    [][(resume_emulation /\ Running) =>
            UNCHANGED <<start_time_ns, paused_time_ns, emulated_cycles,
                        emulated_instructions, nes, pixels, rom_path>>]_vars

\* A resume() called while Running, the clock past a moved epoch.
C19_Witness ==
    /\ op = "resume"
    /\ arg = <<"running">>
    /\ Running
    /\ start_time_ns > 0
    /\ now > start_time_ns
    /\ emulated_cycles > 0

(***************************************************************************)
(* The frame sink adapter on its own: VideoFrameSink::write_frame applied  *)
(* to any frame of W*H palette indices over any previous buffer contents.  *)
(***************************************************************************)
Frames       == [1..FrameLen -> 0..MaxPaletteIndex]
\* Previous contents of the buffer: one byte value throughout, or one byte
\* value with a different one at a single position.
StaleBytes   == {0, 85, 255}
StaleBuffers ==
    {[k \in 1..(FrameLen * 4) |-> IF k = j THEN c ELSE b] :
        b \in StaleBytes, c \in StaleBytes, j \in 1..(FrameLen * 4)}

VideoInit ==
    /\ now = 0
    /\ start_time_ns = 0
    /\ paused_time_ns = None
    /\ emulated_cycles = 0
    /\ emulated_instructions = 0
    /\ nes = NesNew(Cartridge(1))
    /\ rom_path = 1
    /\ pixels \in StaleBuffers
    /\ pc = "idle"
    /\ target_time_ns = 0
    /\ target_cycles = 0
    /\ op = "new"
    /\ arg = <<>>
    /\ entry_cycles = 0
    /\ steps = 0
    /\ running_ns = 0
    /\ pr = NoPR
    /\ last_frame = NoFrame
    /\ emulator_some = TRUE
    /\ opening_file = FALSE
    /\ dialogs = 0
    /\ dlg = NoDlg
    /\ sample_buffer = <<>>
    /\ audio_out = NoAudio
    /\ vprev = pixels

\* The core hands one frame to the sink (video.rs, 20-31).
VideoWriteFrame ==
    /\ \E frame_buffer \in Frames :
        /\ pixels' = write_frame(pixels, frame_buffer)
        /\ last_frame' = frame_buffer
    /\ vprev' = pixels
    /\ op' = "write_frame"
    /\ UNCHANGED <<now, start_time_ns, paused_time_ns, emulated_cycles,
                   emulated_instructions, nes, rom_path, loc, arg, entry_cycles,
                   steps, running_ns, pr, app, aud>>

VideoNext == VideoWriteFrame
VideoSpec == VideoInit /\ [][VideoNext]_vars

(***************************************************************************)
(* C12: for every frame of W*H palette indices, write_frame leaves a       *)
(* buffer of exactly W*H*4 bytes in which byte 4k is bits 16..23 of the    *)
(* palette entry of index k, byte 4k+1 bits 8..15, byte 4k+2 bits 0..7 and *)
(* byte 4k+3 the alpha constant 0x77; every byte is overwritten, whatever  *)
(* the buffer held before.                                                 *)
(***************************************************************************)
C12_WriteFrameExpandsWholeFrame ==
    op = "write_frame" =>
        /\ Len(pixels) = SCREEN_WIDTH * SCREEN_HEIGHT * 4
        /\ \A k \in 0..(SCREEN_WIDTH * SCREEN_HEIGHT - 1) :
            LET entry == XRGB8888_PALETTE[last_frame[k + 1] + 1]
            IN  /\ pixels[4 * k + 1] = (entry \div 65536) % 256
                /\ pixels[4 * k + 2] = (entry \div 256) % 256
                /\ pixels[4 * k + 3] = entry % 256
                /\ pixels[4 * k + 4] = ALPHA
        /\ pixels = Expand(last_frame)

\* A frame written over a buffer none of whose bytes the frame can produce.
C12_Witness ==
    /\ op = "write_frame"
    /\ \A k \in 1..Len(vprev) : vprev[k] = 255
    /\ last_frame[1] # last_frame[FrameLen]
    /\ \A k \in 1..Len(pixels) : pixels[k] # vprev[k]

(***************************************************************************)
(* The sample sink adapter.  crate::audio (CpalDriver, its sink and its    *)
(* playback callback) is not among the sources at hand; this part follows  *)
(* section 4.5 and 5 of the specification: one bounded buffer, a producer  *)
(* that pushes from the stepping context and drops the new sample when the *)
(* buffer is full, a playback callback that pops and emits silence when    *)
(* the buffer is empty, each push or pop being one indivisible handoff.    *)
(***************************************************************************)
Samples == 1..MaxSample
Silence == 0

AudioInit ==
    /\ now = 0
    /\ start_time_ns = 0
    /\ paused_time_ns = None
    /\ emulated_cycles = 0
    /\ emulated_instructions = 0
    /\ nes = NesNew(Cartridge(1))
    /\ rom_path = 1
    /\ pixels = ZeroPixels
    /\ pc = "idle"
    /\ target_time_ns = 0
    /\ target_cycles = 0
    /\ op = "new"
    /\ arg = <<>>
    /\ entry_cycles = 0
    /\ steps = 0
    /\ running_ns = 0
    /\ pr = NoPR
    /\ last_frame = NoFrame
    /\ emulator_some = TRUE
    /\ opening_file = FALSE
    /\ dialogs = 0
    /\ dlg = NoDlg
    /\ sample_buffer = <<>>
    /\ audio_out = NoAudio
    /\ vprev = ZeroPixels

\* on_sample that makes room by discarding the oldest sample.
on_sample_drops_oldest(value) ==
    /\ IF Len(sample_buffer) >= BufferCapacity
       THEN /\ sample_buffer' = Append(Tail(sample_buffer), value)
            /\ audio_out' = [call |-> "push", sample |-> value, dropped |-> TRUE]
       ELSE /\ sample_buffer' = Append(sample_buffer, value)
            /\ audio_out' = [call |-> "push", sample |-> value, dropped |-> FALSE]
    /\ UNCHANGED <<now, emu, loc, hist, last_frame, app, vprev>>

\* on_sample(value), stepping context: push, or drop the new sample when full.
on_sample(value) ==
    /\ IF Len(sample_buffer) >= BufferCapacity
       THEN /\ sample_buffer' = sample_buffer
            /\ audio_out' = [call |-> "push", sample |-> value, dropped |-> TRUE]
       ELSE /\ sample_buffer' = Append(sample_buffer, value)
            /\ audio_out' = [call |-> "push", sample |-> value, dropped |-> FALSE]
    /\ UNCHANGED <<now, emu, loc, hist, last_frame, app, vprev>>

\* The core produces one sample during a step.
OnSample == \E value \in Samples : on_sample(value)

\* The playback callback: pop the oldest sample, or emit silence when empty.
playback_callback ==
    /\ IF sample_buffer = <<>>
       THEN /\ sample_buffer' = sample_buffer
            /\ audio_out' = [call |-> "pop", sample |-> Silence, dropped |-> FALSE]
       ELSE /\ sample_buffer' = Tail(sample_buffer)
            /\ audio_out' = [call |-> "pop", sample |-> Head(sample_buffer),
                             dropped |-> FALSE]
    /\ UNCHANGED <<now, emu, loc, hist, last_frame, app, vprev>>

AudioNext ==
    \/ OnSample
    \/ playback_callback
AudioSpec == AudioInit /\ [][AudioNext]_vars

(***************************************************************************)
(* C13: under any interleaving of pushes and pops the sample buffer never  *)
(* holds more than C samples; a push on a full buffer drops the new sample *)
(* and leaves the contents unchanged; a pop on an empty buffer yields      *)
(* silence; and both the push and the pop can always be taken, whatever    *)
(* the other context has done.                                             *)
(***************************************************************************)
C13_SampleBufferBoundedNonBlocking ==
    /\ [](/\ Len(sample_buffer) <= BufferCapacity
          /\ \A value \in Samples : ENABLED on_sample(value)
          /\ ENABLED playback_callback)
    /\ [][/\ (OnSample /\ Len(sample_buffer) = BufferCapacity)
                => (sample_buffer' = sample_buffer /\ audio_out'.dropped)
          /\ (OnSample /\ Len(sample_buffer) < BufferCapacity)
                => /\ sample_buffer' = Append(sample_buffer, audio_out'.sample)
                   /\ ~audio_out'.dropped
          /\ (playback_callback /\ sample_buffer = <<>>)
                => (sample_buffer' = <<>> /\ audio_out'.sample = Silence)
          /\ (playback_callback /\ sample_buffer # <<>>)
                => /\ audio_out'.sample = Head(sample_buffer)
                   /\ sample_buffer' = Tail(sample_buffer)]_vars

\* A push that met a full buffer and was dropped.
C13_Witness ==
    /\ audio_out.call = "push"
    /\ audio_out.dropped
    /\ Len(sample_buffer) = BufferCapacity
    /\ audio_out.sample # sample_buffer[BufferCapacity]

(***************************************************************************)
(* The application: AppModel::update handling the messages that reach the  *)
(* emulator (app.rs, 271-335).  One message is handled at a time; the loop *)
(* of tick runs inside the handling of Message::Tick.  The file dialog is  *)
(* a task in flight between OpenFileDialog and its OpenFileResult.         *)
(* Emulator::toggle_paused, called at app.rs:327, is not among the sources *)
(* at hand; it is taken to pause a Running emulator and resume a Paused    *)
(* one, as pause() and resume() of section 4.3 of the specification.       *)
(***************************************************************************)
NoEmulator == NesNew(0)

\* AppModel::init: the emulator exists when a rom was given in the flags.
AppInit ==
    /\ now = 0
    /\ emulator_some \in BOOLEAN
    /\ start_time_ns = 0
    /\ paused_time_ns = None
    /\ emulated_cycles = 0
    /\ emulated_instructions = 0
    /\ IF emulator_some
       THEN \E p \in Paths : nes = NesNew(Cartridge(p)) /\ rom_path = p
       ELSE nes = NoEmulator /\ rom_path = 0
    /\ pixels = ZeroPixels
    /\ pc = "idle"
    /\ target_time_ns = 0
    /\ target_cycles = 0
    /\ op = "new"
    /\ arg = <<>>
    /\ entry_cycles = 0
    /\ steps = 0
    /\ running_ns = 0
    /\ pr = NoPR
    /\ last_frame = NoFrame
    /\ opening_file = FALSE
    /\ dialogs = 0
    /\ dlg = NoDlg
    /\ sample_buffer = <<>>
    /\ audio_out = NoAudio
    /\ vprev = ZeroPixels

\* A handler that finds no emulator, or has nothing to do, changes nothing.
Ignored ==
    /\ pc = "idle"
    /\ UNCHANGED <<now, emu, loc, hist, last_frame, emulator_some, opening_file,
                   dialogs, dlg, aud, vprev>>

\* The clock moves on between two messages.
AppClock ==
    /\ now + ClockQuantum <= AppMaxTime
    /\ ClockAdvance
    /\ dlg' = IF dlg.stage = "open" /\ emulator_some /\ paused_time_ns = None
              THEN [dlg EXCEPT !.run = @ + ClockQuantum]
              ELSE dlg
    /\ UNCHANGED <<emulator_some, opening_file, dialogs, aud, vprev>>

\* Message::Tick (app.rs, 320-324)
Msg_Tick ==
    \/ /\ emulator_some
       /\ tick
       /\ UNCHANGED <<emulator_some, opening_file, dialogs, dlg, aud, vprev>>
    \/ /\ ~emulator_some
       /\ Ignored

\* Emulator::toggle_paused
toggle_paused ==
    IF paused_time_ns = None THEN pause_emulation ELSE resume_emulation

\* Message::ToggleEmulation (app.rs, 325-329)
Msg_ToggleEmulation ==
    \/ /\ emulator_some
       /\ toggle_paused
       /\ dlg' = IF dlg.stage = "open" THEN [dlg EXCEPT !.touched = TRUE] ELSE dlg
       /\ UNCHANGED <<emulator_some, opening_file, dialogs, aud, vprev>>
    \/ /\ ~emulator_some
       /\ Ignored

\* Message::ResetEmulation (app.rs, 330-335)
Msg_ResetEmulation ==
    \/ /\ emulator_some
       /\ reset
       /\ dlg' = IF dlg.stage = "open"
                 THEN [dlg EXCEPT !.touched = TRUE, !.base = 0, !.frozen = 0,
                                  !.run = 0]
                 ELSE dlg
       /\ UNCHANGED <<emulator_some, opening_file, dialogs, aud, vprev>>
    \/ /\ ~emulator_some
       /\ Ignored

\* Message::KeyDown (app.rs, 310-314)
Msg_KeyDown ==
    \/ /\ emulator_some
       /\ key_down
       /\ UNCHANGED <<emulator_some, opening_file, dialogs, dlg, aud, vprev>>
    \/ /\ ~emulator_some
       /\ Ignored

\* Message::KeyUp (app.rs, 315-319)
Msg_KeyUp ==
    \/ /\ emulator_some
       /\ key_up
       /\ UNCHANGED <<emulator_some, opening_file, dialogs, dlg, aud, vprev>>
    \/ /\ ~emulator_some
       /\ Ignored

\* OpenFileDialog without the test of opening_file at line 272.
Msg_OpenFileDialog_unguarded ==
    \/ /\ TRUE
       /\ IF emulator_some
          THEN pause_emulation
          ELSE pc = "idle" /\ UNCHANGED <<now, emu, loc, hist, last_frame>>
       /\ opening_file' = TRUE
       /\ dialogs' = dialogs + 1
       /\ dlg' = [stage      |-> "open",
                  was_paused |-> emulator_some /\ paused_time_ns # None,
                  base       |-> IF emulator_some THEN now - start_time_ns ELSE 0,
                  frozen     |-> IF ~emulator_some THEN 0
                                 ELSE IF paused_time_ns # None
                                 THEN paused_time_ns[1] - start_time_ns
                                 ELSE now - start_time_ns,
                  run        |-> 0,
                  touched    |-> FALSE,
                  ignored    |-> FALSE,
                  pauses     |-> IF emulator_some THEN 1 ELSE 0,
                  resumes    |-> 0]
       /\ UNCHANGED <<emulator_some, aud, vprev>>

\* Message::OpenFileDialog (app.rs, 271-288)
Msg_OpenFileDialog ==
    \/ /\ ~opening_file
       /\ IF emulator_some
          THEN pause_emulation
          ELSE pc = "idle" /\ UNCHANGED <<now, emu, loc, hist, last_frame>>
       /\ opening_file' = TRUE
       /\ dialogs' = dialogs + 1
       /\ dlg' = [stage      |-> "open",
                  was_paused |-> emulator_some /\ paused_time_ns # None,
                  base       |-> IF emulator_some THEN now - start_time_ns ELSE 0,
                  frozen     |-> IF ~emulator_some THEN 0
                                 ELSE IF paused_time_ns # None
                                 THEN paused_time_ns[1] - start_time_ns
                                 ELSE now - start_time_ns,
                  run        |-> 0,
                  touched    |-> FALSE,
                  ignored    |-> FALSE,
                  pauses     |-> IF emulator_some THEN 1 ELSE 0,
                  resumes    |-> 0]
       /\ UNCHANGED <<emulator_some, aud, vprev>>
    \/ /\ opening_file
       /\ pc = "idle"
       /\ dlg' = [dlg EXCEPT !.ignored = TRUE]
       /\ UNCHANGED <<now, emu, loc, hist, last_frame, emulator_some,
                      opening_file, dialogs, aud, vprev>>

\* Message::OpenFileResult(path_buf) (app.rs, 289-309); ok tells whether
\* load_rom(&rom_path) (emulator.rs, 134-151) returned a cartridge.
Msg_OpenFileResult(path_buf, ok) ==
    /\ pc = "idle"
    /\ dialogs > 0
    /\ dialogs' = dialogs - 1
    /\ opening_file' = FALSE
    /\ LET \* lines 291-293: emulator.resume_emulation()
           resumed_start ==
               IF emulator_some /\ paused_time_ns # None
               THEN start_time_ns + (now - paused_time_ns[1])
               ELSE start_time_ns
       IN  IF path_buf # None /\ ok
           THEN \* lines 297-301: emulator.load_rom, or Emulator::new
                /\ nes' = NesNew(Cartridge(path_buf[1]))
                /\ rom_path' = path_buf[1]
                /\ start_time_ns' = now
                /\ paused_time_ns' = None
                /\ emulated_cycles' = 0
                /\ emulated_instructions' = 0
                /\ pixels' = IF emulator_some THEN pixels ELSE ZeroPixels
                /\ last_frame' = IF emulator_some THEN last_frame ELSE NoFrame
                /\ emulator_some' = TRUE
                /\ running_ns' = 0
                /\ dlg' = [dlg EXCEPT !.stage = "loaded",
                                      !.resumes = IF emulator_some THEN @ + 1 ELSE @,
                                      !.ignored = FALSE]
           ELSE \* no path chosen, or lines 302-305: the error is logged
                /\ start_time_ns' = resumed_start
                /\ paused_time_ns' = None
                /\ UNCHANGED <<nes, rom_path, emulated_cycles, emulated_instructions,
                               pixels, last_frame, emulator_some, running_ns>>
                /\ dlg' = [dlg EXCEPT !.stage = IF path_buf = None THEN "cancelled"
                                                ELSE "failed",
                                      !.resumes = IF emulator_some THEN @ + 1 ELSE @,
                                      !.ignored = FALSE]
    /\ op' = "result"
    /\ arg' = <<>>
    /\ entry_cycles' = 0
    /\ steps' = 0
    /\ pr' = NoPR
    /\ UNCHANGED <<now, loc, aud, vprev>>

\* The file dialog task completes: nothing chosen, or a path whose file
\* load_rom can or cannot read.
OpenFileResult ==
    \E path_buf \in {None} \cup {Some(p) : p \in Paths}, ok \in BOOLEAN :
        Msg_OpenFileResult(path_buf, ok)

AppNext ==
    \/ AppClock
    \/ Msg_Tick
    \/ tick_step /\ UNCHANGED other
    \/ tick_return /\ UNCHANGED other
    \/ Msg_ToggleEmulation
    \/ Msg_ResetEmulation
    \/ Msg_KeyDown
    \/ Msg_KeyUp
    \/ Msg_OpenFileDialog
    \/ OpenFileResult
AppSpec == AppInit /\ [][AppNext]_vars

(***************************************************************************)
(* C11: a rom load failure leaves the session unaffected and running: when *)
(* OpenFileResult(Some(path)) is handled and load_rom(path) fails, the     *)
(* machine core, the counters and the rom path are unchanged, no emulator  *)
(* is created when none existed, and an existing session is Running        *)
(* afterwards with an elapsed time that is not negative and holds no more  *)
(* than the time at the opening of the dialog plus the time spent Running  *)
(* since: no cycle debt for the time the dialog was open.                  *)
(***************************************************************************)
C11_LoadFailureLeavesSession ==
    /\ [][(OpenFileResult /\ dlg'.stage = "failed") =>
            UNCHANGED <<nes, emulated_cycles, emulated_instructions, rom_path,
                        emulator_some>>]_vars
    /\ []((op = "result" /\ dlg.stage = "failed" /\ emulator_some) =>
            /\ Running
            /\ 0 <= now - start_time_ns
            /\ now - start_time_ns <= dlg.base + dlg.run)

(***************************************************************************)
(* C20: opening and cancelling the file dialog, with no toggle or reset in *)
(* between, preserves the pause state and the pacing: the emulator is      *)
(* Paused afterwards exactly if it was Paused before, the machine core and *)
(* the counters are unchanged, and a Running emulator has the elapsed time *)
(* it stood at when the dialog opened.                                     *)
(***************************************************************************)
C20_DialogCancelPreservesSession ==
    /\ [][(OpenFileResult /\ dlg'.stage = "cancelled") =>
            UNCHANGED <<nes, emulated_cycles, emulated_instructions, rom_path,
                        pixels, emulator_some>>]_vars
    /\ []((op = "result" /\ dlg.stage = "cancelled" /\ ~dlg.touched
                /\ emulator_some) =>
            /\ Paused <=> dlg.was_paused
            /\ Running => now - start_time_ns = dlg.frozen
            /\ Paused => paused_time_ns[1] - start_time_ns = dlg.frozen)

(***************************************************************************)
(* C21: at most one file dialog is outstanding.  An OpenFileDialog handled *)
(* while opening_file is true starts no second task, pauses nothing and    *)
(* leaves the paused timestamp alone; opening_file is true exactly from an *)
(* accepted OpenFileDialog to the handling of its OpenFileResult; and the  *)
(* pause_emulation call of an accepted OpenFileDialog is matched by        *)
(* exactly one resume_emulation call, made by its OpenFileResult.          *)
(***************************************************************************)
C21_AtMostOneDialog ==
    /\ [](/\ dialogs <= 1
          /\ opening_file <=> dialogs = 1
          /\ opening_file <=> dlg.stage = "open"
          /\ dlg.stage = "open" =>
                /\ dlg.pauses = IF emulator_some THEN 1 ELSE 0
                /\ dlg.resumes = 0
          /\ dlg.stage \in {"cancelled", "failed", "loaded"} =>
                dlg.resumes = dlg.pauses
          /\ (dlg.stage = "open" /\ emulator_some /\ ~dlg.touched) =>
                paused_time_ns = Some(dlg.base + start_time_ns))
    /\ [][/\ (opening_file /\ Msg_OpenFileDialog) =>
                UNCHANGED <<now, emu, loc, opening_file, dialogs, emulator_some>>
          /\ OpenFileResult => (opening_file /\ ~opening_file')
          /\ (opening_file' # opening_file) =>
                (Msg_OpenFileDialog \/ OpenFileResult)]_vars

\* A second OpenFileDialog arrived after the clock moved on, the first
\* dialog still open: the pause made when it opened stands.
C21_Witness ==
    /\ dlg.stage = "open"
    /\ dlg.ignored
    /\ ~dlg.touched
    /\ emulator_some
    /\ opening_file
    /\ dialogs = 1
    /\ paused_time_ns # None
    /\ now > paused_time_ns[1]

====
